---- MODULE Spec2Model ----
(***************************************************************************)
(* Model of backend/main.py of riboflavin: the two transcript parsers,     *)
(* parse_daily_covids_wake_transcript and parse_transcript_to_notes.       *)
(* A Python str is a sequence of one-character strings; None is the empty  *)
(* sequence where only its truth value is read.                            *)
(***************************************************************************)
EXTENDS Integers, Sequences, FiniteSets, TLC

\* ------------------------------------------------------------------ bounds
MaxLines == 6
MaxNoteLines == 4
MaxAgainLines == 4
MaxCalls == 2
MaxPairLines == 4
MaxPairNoteLines == 2
MaxEndpointLines == 5
MaxBracketLines == 5

\* ------------------------------------------------------------ characters
UpperLetters == <<"A","B","C","D","E","F","G","H","I","J","K","L","M",
                  "N","O","P","Q","R","S","T","U","V","W","X","Y","Z">>
LowerLetters == <<"a","b","c","d","e","f","g","h","i","j","k","l","m",
                  "n","o","p","q","r","s","t","u","v","w","x","y","z">>
DigitChars == <<"0","1","2","3","4","5","6","7","8","9">>
NL == "\n"

UpperSet == {UpperLetters[k] : k \in 1..26}
LowerSet == {LowerLetters[k] : k \in 1..26}
ToLower == [c \in UpperSet |-> LowerLetters[CHOOSE k \in 1..26 : UpperLetters[k] = c]]
ToUpper == [c \in LowerSet |-> UpperLetters[CHOOSE k \in 1..26 : LowerLetters[k] = c]]

IsUpper(c) == c \in UpperSet
IsLower(c) == c \in LowerSet
\* what str.strip(), str.split() and the regex class \s take for whitespace
IsSpace(c) == c \in {" ", "\t", "\n", "\r"}

LowerChar(c) == IF IsUpper(c) THEN ToLower[c] ELSE c
UpperChar(c) == IF IsLower(c) THEN ToUpper[c] ELSE c

\* str.lower()
Lower(s) == [k \in 1..Len(s) |-> LowerChar(s[k])]
\* str.capitalize(): first character upper-cased, the rest lower-cased
Capitalize(s) == [k \in 1..Len(s) |-> IF k = 1 THEN UpperChar(s[k]) ELSE LowerChar(s[k])]

\* str.rstrip()
RECURSIVE RStrip(_)
RStrip(s) ==
    IF s = <<>> THEN <<>>
    ELSE IF IsSpace(s[Len(s)]) THEN RStrip(SubSeq(s, 1, Len(s) - 1)) ELSE s
\* str.lstrip()
RECURSIVE LStrip(_)
LStrip(s) ==
    IF s = <<>> THEN <<>>
    ELSE IF IsSpace(s[1]) THEN LStrip(Tail(s)) ELSE s
\* str.strip()
Strip(s) == LStrip(RStrip(s))

\* str.split(sep) for a one-character sep: empty pieces are kept
RECURSIVE SplitOn(_, _)
SplitOn(s, sep) ==
    IF \A k \in 1..Len(s) : s[k] # sep THEN <<s>>
    ELSE LET p == CHOOSE k \in 1..Len(s) : s[k] = sep /\ \A j \in 1..(k - 1) : s[j] # sep
         IN <<SubSeq(s, 1, p - 1)>> \o SplitOn(SubSeq(s, p + 1, Len(s)), sep)

\* str.split() without argument: runs of whitespace separate, no empty piece
RECURSIVE Words(_)
Words(s) ==
    LET t == LStrip(s) IN
    IF t = <<>> THEN <<>>
    ELSE IF \A k \in 1..Len(t) : ~IsSpace(t[k]) THEN <<t>>
    ELSE LET p == CHOOSE k \in 1..Len(t) : IsSpace(t[k]) /\ \A j \in 1..(k - 1) : ~IsSpace(t[j])
         IN <<SubSeq(t, 1, p - 1)>> \o Words(SubSeq(t, p + 1, Len(t)))

\* sep.join(parts)
RECURSIVE Join(_, _)
Join(parts, sep) ==
    IF parts = <<>> THEN <<>>
    ELSE IF Len(parts) = 1 THEN parts[1]
    ELSE parts[1] \o sep \o Join(Tail(parts), sep)

\* str.startswith(prefix)
StartsWith(s, prefix) == Len(s) >= Len(prefix) /\ SubSeq(s, 1, Len(prefix)) = prefix

\* x in y for two str: y has x as a substring
Contains(y, x) ==
    \E k \in 0..(Len(y) - Len(x)) : SubSeq(y, k + 1, k + Len(x)) = x

\* str(n) for n >= 0
RECURSIVE Digits(_)
Digits(n) == IF n < 10 THEN <<DigitChars[n + 1]>> ELSE Digits(n \div 10) \o <<DigitChars[(n % 10) + 1]>>
\* int(s) for a str of decimal digits; -1 stands for the ValueError of any other str
RECURSIVE ParseInt(_)
ParseInt(s) ==
    IF s = <<>> \/ \E k \in 1..Len(s) : \A d \in 1..10 : DigitChars[d] # s[k] THEN -1
    ELSE LET last == (CHOOSE d \in 1..10 : DigitChars[d] = s[Len(s)]) - 1
         IN IF Len(s) = 1 THEN last ELSE 10 * ParseInt(SubSeq(s, 1, Len(s) - 1)) + last

\* str.replace(old, ''): every occurrence of old, left to right, is removed
RECURSIVE RemoveAll(_, _)
RemoveAll(s, old) ==
    IF Len(s) < Len(old) \/ old = <<>> THEN s
    ELSE IF SubSeq(s, 1, Len(old)) = old THEN RemoveAll(SubSeq(s, Len(old) + 1, Len(s)), old)
    ELSE <<s[1]>> \o RemoveAll(Tail(s), old)

\* ------------------------------------------------------- program constants
MichaelBarbaro == <<"M","i","c","h","a","e","l"," ","B","a","r","b","a","r","o">>
StephenMacedo == <<"S","t","e","p","h","e","n"," ","M","a","c","e","d","o">>
FrancesLee == <<"F","r","a","n","c","e","s"," ","L","e","e">>
BackgroundReading == <<"B","a","c","k","g","r","o","u","n","d"," ","R","e","a","d","i","n","g">>
SiteIndex == <<"S","i","t","e"," ","I","n","d","e","x">>
ColumnPrefix == <<"c","o","l","u","m","n","-">>
NotePrefix == <<"n","o","t","e","-">>
EdgePrefix == <<"e","d","g","e","-">>
ArchivedRecording == <<"a","r","c","h","i","v","e","d"," ","r","e","c","o","r","d","i","n","g">>

\* EdgeId with the loop's i taken for i + 1
EdgeIdFromZero(n) == EdgePrefix \o Digits(n - 1)

\* ColumnId with len(columns) taken for len(columns) + 1
ColumnIdFromZero(n) == ColumnPrefix \o Digits(n - 1)

\* f'column-{n}', f'note-{n}', f'edge-{n}'
ColumnId(n) == ColumnPrefix \o Digits(n)
NoteId(n) == NotePrefix \o Digits(n)
EdgeId(n) == EdgePrefix \o Digits(n)

\* excluded_columns without its second title
excluded_columns_short == {BackgroundReading}
excluded_columns == {BackgroundReading, SiteIndex}

\* PresetColumns without the empty fourth column
PresetColumnsNoPlaceholder ==
    << [id |-> ColumnId(1), title |-> MichaelBarbaro, notes |-> <<>>],
       [id |-> ColumnId(2), title |-> StephenMacedo, notes |-> <<>>],
       [id |-> ColumnId(3), title |-> FrancesLee, notes |-> <<>>] >>

PresetColumns ==
    << [id |-> ColumnId(1), title |-> MichaelBarbaro, notes |-> <<>>],
       [id |-> ColumnId(2), title |-> StephenMacedo, notes |-> <<>>],
       [id |-> ColumnId(3), title |-> FrancesLee, notes |-> <<>>],
       [id |-> ColumnId(4), title |-> <<>>, notes |-> <<>>] >>

EdgeTypes == {"smoothstep", "ellipsis", "yes", "no"}

\* a pattern for any number of names: runs of a-z separated by whitespace
NameLineMatchAnyTokens(s) ==
    /\ s # <<>>
    /\ IsLower(s[1]) /\ IsLower(s[Len(s)])
    /\ \A k \in 1..Len(s) : IsLower(s[k]) \/ IsSpace(s[k])

\* re.match(r'^[a-z]+\s+[a-z]+$', s): two runs of a-z separated by whitespace;
\* $ also matches just before one final newline
NameLineMatch(s) ==
    LET t == IF s # <<>> /\ s[Len(s)] = NL THEN SubSeq(s, 1, Len(s) - 1) ELSE s IN
    \E p \in 1..Len(t) :
        /\ \A k \in 1..p : IsLower(t[k])
        /\ \E q \in (p + 1)..(Len(t) - 1) :
               /\ \A k \in (p + 1)..q : IsSpace(t[k])
               /\ \A k \in (q + 1)..Len(t) : IsLower(t[k])

\* ' '.join(word.capitalize() for word in current_speaker.split())
SpeakerTitle(speaker) ==
    LET ws == Words(speaker)
    IN Join([k \in 1..Len(ws) |-> Capitalize(ws[k])], <<" ">>)

\* the first line that looks like a speaker name, 0-based; 0 when there is none
StartIndex(ls) ==
    IF \E k \in 1..Len(ls) : NameLineMatch(Lower(ls[k]))
    THEN (CHOOSE k \in 1..Len(ls) :
              /\ NameLineMatch(Lower(ls[k]))
              /\ \A j \in 1..(k - 1) : ~NameLineMatch(Lower(ls[j]))) - 1
    ELSE 0

\* a test that knows of the square bracket alone
ExcludedLineBracketOnly(line) == StartsWith(line, <<"[">>)

\* the line-exclusion test of a content line
ExcludedLine(line) ==
    \/ StartsWith(line, <<"[">>)
    \/ StartsWith(line, <<"(">>)
    \/ StartsWith(line, ArchivedRecording)

\* ------------------------------------------------------------------ state
VARIABLES
    fn,                 \* the parser invoked: "daily" or "notes"
    file_exists,        \* os.path.exists(file_path), read by the daily parser
    content,            \* the text of the file, or the text_content argument
    pc,                 \* "call", "scan", "collect", "edges", "done", "raised"
    raised,             \* the exception that left the parser, "none" if none
    lines, conversation_lines,
    idx,                \* position of the line loop, 1-based
    columns, column_map, notes, note_id_counter,
    current_speaker, current_paragraph,
    speaker_mapping, all_notes,
    edges,
    i,                  \* the edge loop's i
    result,             \* the returned graph, <<>> before the return
    returned,           \* the graphs returned by the earlier calls, oldest first
    \* history, read by no action: where in conversation_lines + [''] the
    \* speaker, the paragraph and each emitted note come from
    speaker_at,         \* the position of the line that set current_speaker, or 0
    paragraph_at,       \* the positions of the lines of current_paragraph
    note_at,            \* per emitted note: [speaker |-> position, lines |-> positions]
    other,              \* the frame of a second call in progress in another
                        \* worker thread, <<>> when there is none
    \* POST /api/parse-daily-covids-wake
    response,           \* the status code of the response, 0 before it
    parsed_file,        \* PARSED_DIR/daily_covids_wake_parsed.json, <<>> if not written
    public_file         \* PUBLIC_DIR/daily_covids_wake_parsed.json, <<>> if not written

vars == <<fn, file_exists, content, pc, raised, lines, conversation_lines, idx,
          columns, column_map, notes, note_id_counter, current_speaker,
          current_paragraph, speaker_mapping, all_notes, edges, i, result, returned,
          speaker_at, paragraph_at, note_at, other, response, parsed_file,
          public_file>>

history == <<speaker_at, paragraph_at, note_at>>
endpoint == <<response, parsed_file, public_file>>

\* a note counter that the calls share: a call goes on from where the other is
FirstNoteIdShared == IF other = <<>> THEN 1 ELSE other.note_id_counter

\* "note_id_counter = 1" at the start of a call: the counter is a local
FirstNoteId == 1

\* a parser that does not test for the file
FileMissingIgnored == FALSE

\* "if not os.path.exists(file_path)"
FileMissing == ~file_exists

\* the input: the lines a transcript is made of
LineFrancesLee == <<"f","r","a","n","c","e","s"," ","l","e","e">>
LineAlBo == <<"a","l"," ","b","o">>
LineAlBoVariant == <<"A","L"," "," ","B","o">>
LineSiteIndex == <<"s","i","t","e"," ","i","n","d","e","x">>
LineHi == <<"h","i">>
LineSpaceAlBo == <<" ","a","l"," ","b","o">>
LineABC == <<"a"," ","b"," ","c">>
LineBracket == <<"[","x">>
LineParen == <<"(","y">>
LineArchived == ArchivedRecording \o <<" ","1">>
LineAlBoSpace == <<"a","l"," ","b","o"," ">>
\* two speakers, one of them a preset column's
DailyLines == {LineFrancesLee, LineAlBo, LineHi, <<>>}
\* one speaker, spelled in two ways
VariantLines == {LineAlBo, LineAlBoVariant, LineHi, <<>>}
\* a speaker line with a space at its end, and a speaker line without
TrailingLines == {LineAlBoSpace, LineFrancesLee, LineHi, <<>>}
\* lines of one, two and three words, and a line that begins with a space
TokenLines == {LineAlBo, LineSpaceAlBo, LineHi, LineABC}
\* a speaker, a content line and the three kinds of line that are left out
BracketLines == {LineAlBo, LineHi, LineBracket, LineParen, LineArchived}
\* a speaker and an excluded title
ExcludedLines == {LineAlBo, LineSiteIndex, LineHi, <<>>}

NoteLineAl == <<"A","L",":"," ","h","i">>
NoteLineAlEmpty == <<"A","L",":">>
NoteLineBo == <<"B","O",":"," ","y","o">>
NoteLineAlBo == <<"A","L"," ","B","O",":"," ","o","k">>
NoteLinePlain == <<"x"," ","y">>
\* the two calls of a pair speak of different things
PairDailyLines == {LineAlBo, LineHi}
PairNoteLines == {NoteLineAl, NoteLinePlain}
OtherNoteLines == {NoteLineBo, NoteLineAlBo}
NoteLines == {NoteLineAl, NoteLineAlEmpty, NoteLineBo, NoteLineAlBo, NoteLinePlain, <<>>}

\* the texts of at most n lines drawn from ls
Texts(ls, n) == {Join(t, <<NL>>) : t \in UNION {[1..k -> ls] : k \in 0..n}}

NoMap == [x \in {} |-> 0]

Locals ==
    /\ pc = "call"
    /\ raised = "none"
    /\ lines = <<>>
    /\ conversation_lines = <<>>
    /\ idx = 1
    /\ columns = <<>>
    /\ column_map = NoMap
    /\ notes = <<>>
    /\ note_id_counter = 1
    /\ current_speaker = <<>>
    /\ current_paragraph = <<>>
    /\ speaker_mapping = <<>>
    /\ all_notes = <<>>
    /\ edges = <<>>
    /\ i = 0
    /\ result = <<>>
    /\ returned = <<>>
    /\ speaker_at = 0
    /\ paragraph_at = <<>>
    /\ note_at = <<>>

InitWith(daily, note) ==
    /\ \/ fn = "daily" /\ file_exists = TRUE /\ content \in daily
       \/ fn = "daily" /\ file_exists = FALSE /\ content = <<>>
       \/ fn = "notes" /\ file_exists = TRUE /\ content \in note
    /\ Locals
    /\ other = <<>>
    /\ response = 0
    /\ parsed_file = <<>>
    /\ public_file = <<>>

Init == InitWith(Texts(DailyLines, MaxLines), Texts(NoteLines, MaxNoteLines))
InitVariant == InitWith(Texts(VariantLines, MaxLines), {})
InitExcluded == InitWith(Texts(ExcludedLines, MaxLines), {})
InitTrailing == InitWith(Texts(TrailingLines, MaxLines), {})
InitTokens == InitWith(Texts(TokenLines, MaxLines), {})
InitBracket == InitWith(Texts(BracketLines, MaxBracketLines), {})
InitEndpoint == InitWith(Texts(DailyLines, MaxEndpointLines), {})
InitAgain == InitWith(Texts(DailyLines, MaxAgainLines), Texts(NoteLines, MaxAgainLines))

\* ------------------------------------ parse_daily_covids_wake_transcript
\* the file is missing: FileNotFoundError; otherwise read, split, find the start
DailyOpen ==
    /\ pc = "call" /\ fn = "daily"
    /\ IF FileMissing
       THEN /\ pc' = "raised"
            /\ raised' = "FileNotFoundError"
            /\ UNCHANGED <<lines, conversation_lines, columns>>
       ELSE LET ls == SplitOn(Strip(content), NL)
                start_index == StartIndex(ls)
            IN /\ lines' = ls
               /\ conversation_lines' = SubSeq(ls, start_index + 1, Len(ls))
               /\ columns' = PresetColumns
               /\ pc' = "scan"
               /\ UNCHANGED raised
    /\ column_map' = NoMap
    /\ notes' = <<>>
    /\ note_id_counter' = FirstNoteId
    /\ current_speaker' = <<>>
    /\ current_paragraph' = <<>>
    /\ idx' = 1
    /\ UNCHANGED <<fn, file_exists, content, speaker_mapping, all_notes, edges, i,
                   result, returned, history, other, endpoint>>

\* the loop without the '' that makes it flush the trailing paragraph
LoopLinesNoFinalFlush == conversation_lines

\* the line the loop is at: conversation_lines + [''], right-stripped
LoopLines == conversation_lines \o << <<>> >>
CurrentLine == RStrip(LoopLines[idx])

\* Resolve without the lookup in column_map: a new column for every paragraph
ResolveAlwaysNew(cols, cmap, speaker_title) ==
    [columns |-> Append(cols, [id |-> ColumnId(Len(cols) + 1),
                               title |-> speaker_title, notes |-> <<>>]),
     column_map |-> (speaker_title :> (Len(cols) + 1)) @@ cmap,
     at |-> Len(cols) + 1]

\* the column of speaker_title after the lookup: its position, and the lists
Resolve(cols, cmap, speaker_title) ==
    IF speaker_title \notin DOMAIN cmap
    THEN [columns |-> Append(cols, [id |-> ColumnId(Len(cols) + 1),
                                    title |-> speaker_title, notes |-> <<>>]),
          column_map |-> cmap @@ (speaker_title :> (Len(cols) + 1)),
          at |-> Len(cols) + 1]
    ELSE [columns |-> cols, column_map |-> cmap, at |-> cmap[speaker_title]]

\* a note that names its column by the title
NoteColumnIdByTitle(column) == column.title

\* 'columnId': column['id']
NoteColumnId(column) == column.id

\* "if current_speaker and current_paragraph"
FlushGuard == current_speaker # <<>> /\ current_paragraph # <<>>

\* ResetParagraph left out: the paragraph survives its flush
KeepParagraph == current_paragraph

\* "current_paragraph = []" at the end of a flush
ResetParagraph == <<>>

\* whether the flush emits a note
Emits ==
    /\ FlushGuard
    /\ Strip(Join(current_paragraph, <<NL>>)) # <<>>
    /\ SpeakerTitle(current_speaker) \notin excluded_columns

\* the speaker line's own name, as if current_speaker were assigned before
\* the flush
FlushSpeakerAssignedFirst ==
    IF NameLineMatch(Lower(CurrentLine)) THEN Lower(CurrentLine) ELSE current_speaker

\* the speaker a flush files the paragraph under: current_speaker, which a
\* speaker line assigns only after its flush
FlushSpeaker == current_speaker

\* "Flush any paragraph in progress": the state after it
Flush ==
    IF FlushGuard
    THEN LET paragraph == Strip(Join(current_paragraph, <<NL>>))
             speaker_title == SpeakerTitle(FlushSpeaker)
         IN IF paragraph # <<>> /\ speaker_title \notin excluded_columns
            THEN LET r == Resolve(columns, column_map, speaker_title)
                     note == [id |-> NoteId(note_id_counter),
                              content |-> paragraph,
                              columnId |-> NoteColumnId(r.columns[r.at])]
                 IN [columns |-> [r.columns EXCEPT ![r.at].notes = Append(@, note)],
                     column_map |-> r.column_map,
                     notes |-> Append(notes, note),
                     note_id_counter |-> note_id_counter + 1,
                     current_paragraph |-> ResetParagraph]
            ELSE [columns |-> columns, column_map |-> column_map, notes |-> notes,
                  note_id_counter |-> note_id_counter,
                  current_paragraph |-> ResetParagraph]
    ELSE [columns |-> columns, column_map |-> column_map, notes |-> notes,
          note_id_counter |-> note_id_counter, current_paragraph |-> current_paragraph]

\* the history of a flush
FlushHistory ==
    /\ note_at' = IF Emits
                  THEN Append(note_at, [speaker |-> speaker_at, lines |-> paragraph_at])
                  ELSE note_at
    /\ paragraph_at' = IF FlushGuard THEN <<>> ELSE paragraph_at

\* the for loop moves on, or ends and the edge loop starts
NextLine ==
    /\ idx' = idx + 1
    /\ pc' = IF idx = Len(LoopLines) THEN "edges" ELSE "scan"
    /\ i' = 0
    /\ edges' = <<>>

DailyFrame == UNCHANGED <<fn, file_exists, content, raised, lines, conversation_lines,
                          speaker_mapping, all_notes, result, returned, other, endpoint>>

SpeakerLine ==
    /\ pc = "scan" /\ fn = "daily"
    /\ NameLineMatch(Lower(CurrentLine))
    /\ LET f == Flush
       IN /\ columns' = f.columns
          /\ column_map' = f.column_map
          /\ notes' = f.notes
          /\ note_id_counter' = f.note_id_counter
          /\ current_paragraph' = f.current_paragraph
    /\ current_speaker' = Lower(CurrentLine)
    /\ FlushHistory
    /\ speaker_at' = idx
    /\ NextLine
    /\ DailyFrame

\* a blank line that forgets who is speaking
SpeakerAfterBlankForgotten == <<>>

\* the blank branch assigns nothing to current_speaker
SpeakerAfterBlank == current_speaker

BlankLine ==
    /\ pc = "scan" /\ fn = "daily"
    /\ ~NameLineMatch(Lower(CurrentLine))
    /\ CurrentLine = <<>>
    /\ LET f == Flush
       IN /\ columns' = f.columns
          /\ column_map' = f.column_map
          /\ notes' = f.notes
          /\ note_id_counter' = f.note_id_counter
          /\ current_paragraph' = f.current_paragraph
    /\ current_speaker' = SpeakerAfterBlank
    /\ FlushHistory
    /\ UNCHANGED speaker_at
    /\ NextLine
    /\ DailyFrame

ContentLine ==
    /\ pc = "scan" /\ fn = "daily"
    /\ ~NameLineMatch(Lower(CurrentLine))
    /\ CurrentLine # <<>>
    /\ current_paragraph' =
           IF current_speaker # <<>> /\ ~ExcludedLine(CurrentLine)
           THEN Append(current_paragraph, CurrentLine)
           ELSE current_paragraph
    /\ paragraph_at' =
           IF current_speaker # <<>> /\ ~ExcludedLine(CurrentLine)
           THEN Append(paragraph_at, idx)
           ELSE paragraph_at
    /\ UNCHANGED <<speaker_at, note_at>>
    /\ UNCHANGED <<columns, column_map, notes, note_id_counter, current_speaker>>
    /\ NextLine
    /\ DailyFrame

\* int(columnId.replace('column-', '')) - 1
ColumnIdx(columnId) == ParseInt(RemoveAll(columnId, ColumnPrefix)) - 1

\* Handles with the comparison of the two column indexes turned around
HandlesSwapped(source_note, target_note) ==
    IF source_note.columnId = target_note.columnId
    THEN [sourceHandle |-> "bottom", targetHandle |-> "top"]
    ELSE IF ColumnIdx(source_note.columnId) > ColumnIdx(target_note.columnId)
         THEN [sourceHandle |-> "right", targetHandle |-> "left"]
         ELSE [sourceHandle |-> "left", targetHandle |-> "right"]

\* the handles of the edge from source_note to target_note
Handles(source_note, target_note) ==
    IF source_note.columnId = target_note.columnId
    THEN [sourceHandle |-> "bottom", targetHandle |-> "top"]
    ELSE IF ColumnIdx(source_note.columnId) < ColumnIdx(target_note.columnId)
         THEN [sourceHandle |-> "right", targetHandle |-> "left"]
         ELSE [sourceHandle |-> "left", targetHandle |-> "right"]

\* one turn of "for i in range(len(notes) - 1)"
MakeEdge ==
    /\ pc = "edges" /\ fn = "daily"
    /\ i < Len(notes) - 1
    /\ LET source_note == notes[i + 1]
           target_note == notes[i + 2]
           same_speaker == source_note.columnId = target_note.columnId
           h == Handles(source_note, target_note)
       IN IF ~same_speaker /\ (ColumnIdx(source_note.columnId) < 0
                               \/ ColumnIdx(target_note.columnId) < 0)
          THEN /\ pc' = "raised"
               /\ raised' = "ValueError"
               /\ UNCHANGED <<edges, i>>
          ELSE /\ \E edge_type \in EdgeTypes :
                      edges' = Append(edges, [id |-> EdgeId(i + 1),
                                              source |-> source_note.id,
                                              target |-> target_note.id,
                                              sourceHandle |-> h.sourceHandle,
                                              targetHandle |-> h.targetHandle,
                                              type |-> edge_type])
               /\ i' = i + 1
               /\ UNCHANGED <<pc, raised>>
    /\ UNCHANGED <<fn, file_exists, content, lines, conversation_lines, idx, columns,
                   column_map, notes, note_id_counter, current_speaker,
                   current_paragraph, speaker_mapping, all_notes, result, returned, history, other, endpoint>>

DailyReturn ==
    /\ pc = "edges" /\ fn = "daily"
    /\ i >= Len(notes) - 1
    /\ result' = [columns |-> columns, edges |-> edges]
    /\ pc' = "done"
    /\ UNCHANGED <<fn, file_exists, content, raised, lines, conversation_lines, idx,
                   columns, column_map, notes, note_id_counter, current_speaker,
                   current_paragraph, speaker_mapping, all_notes, edges, i, returned, history, other, endpoint>>

\* --------------------------------------------- parse_transcript_to_notes
\* the length of the longest prefix of line made of A-Z and whitespace
RECURSIVE NameEnd(_)
NameEnd(line) ==
    IF line = <<>> \/ ~(IsUpper(line[1]) \/ IsSpace(line[1])) THEN 0
    ELSE 1 + NameEnd(Tail(line))

\* re.match(r'^([A-Z][A-Z\s]+):\s*(.*)', line)
SpeakerMatch(line) ==
    /\ line # <<>>
    /\ IsUpper(line[1])
    /\ NameEnd(line) >= 2
    /\ NameEnd(line) < Len(line)
    /\ line[NameEnd(line) + 1] = ":"
\* speaker_match.group(1).strip() and speaker_match.group(2).strip()
MatchedSpeaker(line) == Strip(SubSeq(line, 1, NameEnd(line)))
MatchedContent(line) == Strip(SubSeq(line, NameEnd(line) + 2, Len(line)))

\* speaker_mapping is a dict: its entries in insertion order
HasKey(mapping, key) == \E k \in 1..Len(mapping) : mapping[k].key = key
ValueOf(mapping, key) == mapping[CHOOSE k \in 1..Len(mapping) : mapping[k].key = key].value

\* the first two tests of "a variation of an existing speaker"
Overlaps(speaker_name, existing_name) ==
    \/ Contains(Lower(existing_name), Lower(speaker_name))
    \/ Contains(Lower(speaker_name), Lower(existing_name))
\* the third: the last words are equal; split()[-1] of a str with no word raises
Variation(speaker_name, existing_name) ==
    \/ Overlaps(speaker_name, existing_name)
    \/ LET a == Words(speaker_name)
           b == Words(existing_name)
       IN a # <<>> /\ b # <<>> /\ Lower(a[Len(a)]) = Lower(b[Len(b)])

\* the entry the search loop stops at, 0 when it runs to the end
FirstVariation(mapping, speaker_name) ==
    IF \E k \in 1..Len(mapping) : Variation(speaker_name, mapping[k].value)
    THEN CHOOSE k \in 1..Len(mapping) :
             /\ Variation(speaker_name, mapping[k].value)
             /\ \A j \in 1..(k - 1) : ~Variation(speaker_name, mapping[j].value)
    ELSE 0

\* split()[-1] is reached on a str without a word before the loop stops
SplitRaises(mapping, speaker_name) ==
    \E k \in 1..Len(mapping) :
        /\ FirstVariation(mapping, speaker_name) \in {0} \cup (k..Len(mapping))
        /\ ~Overlaps(speaker_name, mapping[k].value)
        /\ (Words(speaker_name) = <<>> \/ Words(mapping[k].value) = <<>>)

\* speaker_mapping after the "Normalize speaker name" step
Normalize(mapping, speaker_name) ==
    IF HasKey(mapping, speaker_name) THEN mapping
    ELSE LET k == FirstVariation(mapping, speaker_name)
             normalized_name == IF k = 0 THEN speaker_name ELSE mapping[k].value
         IN Append(mapping, [key |-> speaker_name, value |-> normalized_name])

\* "Find or create column for this speaker": the columns, and the column's place
FindOrCreate(cols, normalized_speaker) ==
    IF \E k \in 1..Len(cols) : cols[k].title = normalized_speaker
    THEN [columns |-> cols,
          at |-> CHOOSE k \in 1..Len(cols) :
                     /\ cols[k].title = normalized_speaker
                     /\ \A j \in 1..(k - 1) : cols[j].title # normalized_speaker]
    ELSE [columns |-> Append(cols, [id |-> ColumnId(Len(cols) + 1),
                                    title |-> normalized_speaker, notes |-> <<>>]),
          at |-> Len(cols) + 1]

NotesOpen ==
    /\ pc = "call" /\ fn = "notes"
    /\ lines' = SplitOn(Strip(content), NL)
    /\ columns' = <<>>
    /\ edges' = <<>>
    /\ note_id_counter' = FirstNoteId
    /\ speaker_mapping' = <<>>
    /\ idx' = 1
    /\ pc' = "scan"
    /\ UNCHANGED <<fn, file_exists, content, raised, conversation_lines, column_map,
                   notes, current_speaker, current_paragraph, all_notes, i, result,
                   returned, history, other, endpoint>>

NotesLine == Strip(lines[idx])

NotesNextLine ==
    /\ idx' = idx + 1
    /\ pc' = IF idx = Len(lines) THEN "collect" ELSE "scan"

NotesFrame == UNCHANGED <<fn, file_exists, content, lines, conversation_lines,
                          column_map, notes, current_speaker, current_paragraph,
                          all_notes, edges, i, result, returned, history, other, endpoint>>

\* "if not line: continue"
NotesBlankLine ==
    /\ pc = "scan" /\ fn = "notes"
    /\ NotesLine = <<>>
    /\ NotesNextLine
    /\ UNCHANGED <<raised, columns, note_id_counter, speaker_mapping>>
    /\ NotesFrame

NotesSpeakerLine ==
    /\ pc = "scan" /\ fn = "notes"
    /\ NotesLine # <<>>
    /\ SpeakerMatch(NotesLine)
    /\ LET speaker_name == MatchedSpeaker(NotesLine)
           text == MatchedContent(NotesLine)
       IN IF ~HasKey(speaker_mapping, speaker_name)
             /\ SplitRaises(speaker_mapping, speaker_name)
          THEN /\ pc' = "raised"
               /\ raised' = "IndexError"
               /\ UNCHANGED <<idx, columns, note_id_counter, speaker_mapping>>
          ELSE LET mapping == Normalize(speaker_mapping, speaker_name)
                   normalized_speaker == ValueOf(mapping, speaker_name)
                   r == FindOrCreate(columns, normalized_speaker)
                   note == [id |-> NoteId(note_id_counter),
                            content |-> text,
                            columnId |-> r.columns[r.at].id]
               IN /\ speaker_mapping' = mapping
                  /\ columns' = [r.columns EXCEPT ![r.at].notes = Append(@, note)]
                  /\ note_id_counter' = note_id_counter + 1
                  /\ NotesNextLine
                  /\ UNCHANGED raised
    /\ NotesFrame

\* a line that is no speaker line changes nothing
NotesOtherLine ==
    /\ pc = "scan" /\ fn = "notes"
    /\ NotesLine # <<>>
    /\ ~SpeakerMatch(NotesLine)
    /\ NotesNextLine
    /\ UNCHANGED <<raised, columns, note_id_counter, speaker_mapping>>
    /\ NotesFrame

\* all_notes.extend(column['notes']) for each column in turn
RECURSIVE Flatten(_)
Flatten(cols) == IF cols = <<>> THEN <<>> ELSE cols[1].notes \o Flatten(Tail(cols))

NotesCollect ==
    /\ pc = "collect" /\ fn = "notes"
    /\ all_notes' = Flatten(columns)
    /\ i' = 0
    /\ pc' = "edges"
    /\ UNCHANGED <<fn, file_exists, content, raised, lines, conversation_lines, idx,
                   columns, column_map, notes, note_id_counter, current_speaker,
                   current_paragraph, speaker_mapping, edges, result, returned, history, other, endpoint>>

NotesMakeEdge ==
    /\ pc = "edges" /\ fn = "notes"
    /\ i < Len(all_notes) - 1
    /\ edges' = Append(edges, [id |-> EdgeId(i + 1),
                               source |-> all_notes[i + 1].id,
                               target |-> all_notes[i + 2].id,
                               type |-> "smoothstep"])
    /\ i' = i + 1
    /\ UNCHANGED <<fn, file_exists, content, pc, raised, lines, conversation_lines,
                   idx, columns, column_map, notes, note_id_counter, current_speaker,
                   current_paragraph, speaker_mapping, all_notes, result, returned, history, other, endpoint>>

NotesReturn ==
    /\ pc = "edges" /\ fn = "notes"
    /\ i >= Len(all_notes) - 1
    /\ result' = [columns |-> columns, edges |-> edges]
    /\ pc' = "done"
    /\ UNCHANGED <<fn, file_exists, content, raised, lines, conversation_lines, idx,
                   columns, column_map, notes, note_id_counter, current_speaker,
                   current_paragraph, speaker_mapping, all_notes, edges, i, returned, history, other, endpoint>>

Next ==
    \/ DailyOpen
    \/ SpeakerLine
    \/ BlankLine
    \/ ContentLine
    \/ MakeEdge
    \/ DailyReturn
    \/ NotesOpen
    \/ NotesBlankLine
    \/ NotesSpeakerLine
    \/ NotesOtherLine
    \/ NotesCollect
    \/ NotesMakeEdge
    \/ NotesReturn

\* the handler is invoked once more on the same input: a fresh frame
CallAgain ==
    /\ pc = "done"
    /\ Len(returned) < MaxCalls - 1
    /\ returned' = Append(returned, result)
    /\ pc' = "call"
    /\ lines' = <<>>
    /\ conversation_lines' = <<>>
    /\ idx' = 1
    /\ columns' = <<>>
    /\ column_map' = NoMap
    /\ notes' = <<>>
    /\ note_id_counter' = 1
    /\ current_speaker' = <<>>
    /\ current_paragraph' = <<>>
    /\ speaker_mapping' = <<>>
    /\ all_notes' = <<>>
    /\ edges' = <<>>
    /\ i' = 0
    /\ result' = <<>>
    /\ speaker_at' = 0
    /\ paragraph_at' = <<>>
    /\ note_at' = <<>>
    /\ UNCHANGED <<fn, file_exists, content, raised, other, endpoint>>

\* ------------------------------------------- two calls in worker threads
\* what belongs to one call: its arguments, its locals, its response
Frame ==
    [fn |-> fn, file_exists |-> file_exists, content |-> content, pc |-> pc,
     raised |-> raised, lines |-> lines, conversation_lines |-> conversation_lines,
     idx |-> idx, columns |-> columns, column_map |-> column_map, notes |-> notes,
     note_id_counter |-> note_id_counter, current_speaker |-> current_speaker,
     current_paragraph |-> current_paragraph, speaker_mapping |-> speaker_mapping,
     all_notes |-> all_notes, edges |-> edges, i |-> i, result |-> result,
     speaker_at |-> speaker_at, paragraph_at |-> paragraph_at, note_at |-> note_at,
     response |-> response]

\* the frame of a call that has not started
NewFrame(f, exists, text) ==
    [fn |-> f, file_exists |-> exists, content |-> text, pc |-> "call",
     raised |-> "none", lines |-> <<>>, conversation_lines |-> <<>>,
     idx |-> 1, columns |-> <<>>, column_map |-> NoMap, notes |-> <<>>,
     note_id_counter |-> 1, current_speaker |-> <<>>,
     current_paragraph |-> <<>>, speaker_mapping |-> <<>>,
     all_notes |-> <<>>, edges |-> <<>>, i |-> 0, result |-> <<>>,
     speaker_at |-> 0, paragraph_at |-> <<>>, note_at |-> <<>>,
     response |-> 0]

\* the worker threads change places: the running call is suspended where it
\* is and the other one goes on from where it was
Switch ==
    /\ other # <<>>
    /\ other.pc \notin {"done", "raised"}
    /\ other' = Frame
    /\ fn' = other.fn
    /\ file_exists' = other.file_exists
    /\ content' = other.content
    /\ pc' = other.pc
    /\ raised' = other.raised
    /\ lines' = other.lines
    /\ conversation_lines' = other.conversation_lines
    /\ idx' = other.idx
    /\ columns' = other.columns
    /\ column_map' = other.column_map
    /\ notes' = other.notes
    /\ note_id_counter' = other.note_id_counter
    /\ current_speaker' = other.current_speaker
    /\ current_paragraph' = other.current_paragraph
    /\ speaker_mapping' = other.speaker_mapping
    /\ all_notes' = other.all_notes
    /\ edges' = other.edges
    /\ i' = other.i
    /\ result' = other.result
    /\ speaker_at' = other.speaker_at
    /\ paragraph_at' = other.paragraph_at
    /\ note_at' = other.note_at
    /\ response' = other.response
    /\ UNCHANGED <<returned, parsed_file, public_file>>

\* a call of either parser, and a second call of either parser beside it;
\* two calls of the daily parser read the same file
InitPair ==
    /\ \/ fn = "daily" /\ file_exists = TRUE /\ content \in Texts(PairDailyLines, MaxPairLines)
       \/ fn = "daily" /\ file_exists = FALSE /\ content = <<>>
       \/ fn = "notes" /\ file_exists = TRUE /\ content \in Texts(PairNoteLines, MaxPairNoteLines)
    /\ Locals
    /\ other \in (IF fn = "daily"
                  THEN {NewFrame("daily", file_exists, content)}
                  ELSE {NewFrame("daily", TRUE, t) :
                            t \in Texts(PairDailyLines, MaxPairLines)})
                 \cup {NewFrame("notes", TRUE, t) :
                           t \in Texts(OtherNoteLines, MaxPairNoteLines)}
    /\ response = 0
    /\ parsed_file = <<>>
    /\ public_file = <<>>

PairNext ==
    \/ Next
    \/ Switch

\* ------------------------------------- POST /api/parse-daily-covids-wake
\* json.dump(parsed_data) into the parsed directory
SaveParsedFile ==
    /\ pc = "done" /\ fn = "daily"
    /\ parsed_file' = result
    /\ pc' = "parsed_saved"
    /\ UNCHANGED <<fn, file_exists, content, raised, lines, conversation_lines, idx,
                   columns, column_map, notes, note_id_counter, current_speaker,
                   current_paragraph, speaker_mapping, all_notes, edges, i, result,
                   returned, history, other, response, public_file>>

\* json.dump(parsed_data) into the public directory
SavePublicFile ==
    /\ pc = "parsed_saved"
    /\ public_file' = result
    /\ pc' = "public_saved"
    /\ UNCHANGED <<fn, file_exists, content, raised, lines, conversation_lines, idx,
                   columns, column_map, notes, note_id_counter, current_speaker,
                   current_paragraph, speaker_mapping, all_notes, edges, i, result,
                   returned, history, other, response, parsed_file>>

\* return {"message": ..., "data": parsed_data}
Respond ==
    /\ pc = "public_saved"
    /\ response' = 200
    /\ pc' = "responded"
    /\ UNCHANGED <<fn, file_exists, content, raised, lines, conversation_lines, idx,
                   columns, column_map, notes, note_id_counter, current_speaker,
                   current_paragraph, speaker_mapping, all_notes, edges, i, result,
                   returned, history, other, parsed_file, public_file>>

\* except Exception as e: raise HTTPException(status_code=500, detail=str(e))
RespondError ==
    /\ pc = "raised" /\ fn = "daily"
    /\ response' = 500
    /\ pc' = "responded"
    /\ UNCHANGED <<fn, file_exists, content, raised, lines, conversation_lines, idx,
                   columns, column_map, notes, note_id_counter, current_speaker,
                   current_paragraph, speaker_mapping, all_notes, edges, i, result,
                   returned, history, other, parsed_file, public_file>>

DailyNext ==
    \/ DailyOpen
    \/ SpeakerLine
    \/ BlankLine
    \/ ContentLine
    \/ MakeEdge
    \/ DailyReturn

NextAgain ==
    \/ Next
    \/ CallAgain

EndpointNext ==
    \/ DailyNext
    \/ SaveParsedFile
    \/ SavePublicFile
    \/ Respond
    \/ RespondError

Spec == Init /\ [][Next]_vars
SpecVariant == InitVariant /\ [][DailyNext]_vars
SpecExcluded == InitExcluded /\ [][DailyNext]_vars
SpecAgain == InitAgain /\ [][NextAgain]_vars
SpecTrailing == InitTrailing /\ [][DailyNext]_vars
SpecTokens == InitTokens /\ [][DailyNext]_vars
SpecBracket == InitBracket /\ [][DailyNext]_vars
SpecPair == InitPair /\ [][PairNext]_vars
SpecEndpoint == InitEndpoint /\ [][EndpointNext]_vars

\* ----------------------------------------------------------- properties
\* what the properties read of a graph and of the input
RECURSIVE NoteCount(_)
NoteCount(cols) == IF cols = <<>> THEN 0 ELSE Len(cols[1].notes) + NoteCount(Tail(cols))

GraphNotes(g) ==
    UNION {{g.columns[c].notes[n] : n \in 1..Len(g.columns[c].notes)} :
               c \in 1..Len(g.columns)}
GraphNoteIds(g) == {n.id : n \in GraphNotes(g)}

\* the place in the columns list of the column that holds the note
ColumnOf(g, noteId) ==
    CHOOSE c \in 1..Len(g.columns) :
        \E n \in 1..Len(g.columns[c].notes) : g.columns[c].notes[n].id = noteId

NoteName(n) == NotePrefix \o Digits(n)
EdgeName(n) == EdgePrefix \o Digits(n)

DailyDone == fn = "daily" /\ pc = "done"
NotesDone == fn = "notes" /\ pc = "done"

\* the raw speaker line of the j-th emitted note, and its normalized title
LabelOf(j) == LoopLines[note_at[j].speaker]
Normalized(line) ==
    LET ws == Words(line)
    IN Join([k \in 1..Len(ws) |-> Capitalize(ws[k])], <<" ">>)

\* the lines of the input text, and the runs of lines that satisfy P
InputLines == SplitOn(content, NL)
BlankInput(line) == Strip(line) = <<>>
LabelInput(line) == NameLineMatch(Lower(RStrip(line)))
NonBlankInput(line) == ~BlankInput(line)
ContentInput(line) == ~BlankInput(line) /\ ~LabelInput(line)
Runs(ls, P(_)) ==
    Cardinality({k \in 1..Len(ls) : P(ls[k]) /\ (k = 1 \/ ~P(ls[k - 1]))})

\* C1: the graph of the daily parser with k notes has max(k-1, 0) edges, and
\* the i-th edge is edge-i from note-i to note-(i+1): one path over the notes
C1_EdgePath ==
    DailyDone =>
        LET k == NoteCount(result.columns) IN
        /\ GraphNoteIds(result) = {NoteName(j) : j \in 1..k}
        /\ Len(result.edges) = IF k = 0 THEN 0 ELSE k - 1
        /\ \A j \in 1..Len(result.edges) :
               /\ result.edges[j].id = EdgeName(j)
               /\ result.edges[j].source = NoteName(j)
               /\ result.edges[j].target = NoteName(j + 1)
C1_Witness == DailyDone /\ NoteCount(result.columns) = 3 /\ Len(result.edges) = 2

\* C2: no two columns of the daily parser's graph have the same title: a
\* speaker with a preset column's title is placed in that preset column
C2_UniqueTitles ==
    DailyDone =>
        \A a, b \in 1..Len(result.columns) :
            a # b => result.columns[a].title # result.columns[b].title

\* C3: two emitted notes whose speaker lines normalize to the same title have
\* the same columnId, whatever the casing and spacing of the lines
C3_SameTitleSameColumn ==
    fn = "daily" =>
        \A a, b \in 1..Len(notes) :
            Normalized(LabelOf(a)) = Normalized(LabelOf(b))
                => notes[a].columnId = notes[b].columnId
C3_Witness ==
    /\ DailyDone
    /\ \E a, b \in 1..Len(notes) :
           /\ LabelOf(a) # LabelOf(b)
           /\ Normalized(LabelOf(a)) = Normalized(LabelOf(b))

\* C4: an edge between notes of one column has the handles (bottom, top); if
\* the source's column comes earlier in the columns list, (right, left);
\* otherwise (left, right)
C4_Handles ==
    DailyDone =>
        \A j \in 1..Len(result.edges) :
            LET e == result.edges[j]
                s == ColumnOf(result, e.source)
                t == ColumnOf(result, e.target)
            IN <<e.sourceHandle, e.targetHandle>> =
                   IF s = t THEN <<"bottom", "top">>
                   ELSE IF s < t THEN <<"right", "left">>
                   ELSE <<"left", "right">>
C4_Witness ==
    /\ DailyDone
    /\ \E j \in 1..Len(result.edges) : result.edges[j].sourceHandle = "right"
    /\ \E j \in 1..Len(result.edges) : result.edges[j].sourceHandle = "left"

\* C5: two runs of the daily parser on the same text return the same graph,
\* and every edge has one fixed type
C5_Deterministic ==
    (DailyDone /\ returned # <<>>) =>
        /\ result = returned[1]
        /\ \A j \in 1..Len(result.edges) : result.edges[j].type = "smoothstep"

\* C6: a paragraph of an excluded title (Background Reading, Site Index)
\* makes no note and no column and does not advance the counter: the notes
\* are note-1, ..., note-k without a gap
C6_Excluded ==
    fn = "daily" =>
        /\ note_id_counter = Len(notes) + 1
        /\ \A j \in 1..Len(notes) :
               /\ notes[j].id = NoteName(j)
               /\ Normalized(LabelOf(j)) \notin {BackgroundReading, SiteIndex}
        /\ \A c \in 1..Len(columns) :
               columns[c].title \notin {BackgroundReading, SiteIndex}
C6_Witness ==
    /\ DailyDone
    /\ Len(notes) = 2
    /\ \E p \in 1..Len(conversation_lines) :
           /\ note_at[1].speaker < p /\ p < note_at[2].speaker
           /\ Normalized(LoopLines[p]) = SiteIndex
           /\ LoopLines[p + 1] = LineHi

\* C7: the number of notes of the daily parser never exceeds the number of
\* maximal runs of consecutive non-blank lines of the input
C7_NotesAtMostRuns ==
    DailyDone => NoteCount(result.columns) <= Runs(InputLines, NonBlankInput)
\* C7, amended: the number of notes never exceeds the number of maximal runs
\* of consecutive content lines (lines neither blank nor a speaker line)
C7_NotesAtMostContentRuns ==
    fn = "daily" => Len(notes) <= Runs(InputLines, ContentInput)
C7_Witness ==
    /\ DailyDone
    /\ NoteCount(result.columns) = Runs(InputLines, ContentInput)
    /\ NoteCount(result.columns) > Runs(InputLines, NonBlankInput)

\* C8: every note of parse_transcript_to_notes has non-empty content: a
\* 'NAME:' line without text makes no note and does not advance the counter
C8_NonEmptyContent ==
    NotesDone => \A n \in GraphNotes(result) : n.content # <<>>

\* C9: the edges of parse_transcript_to_notes follow the spoken order: edge-i
\* goes from note-i to note-(i+1)
C9_SpokenOrder ==
    NotesDone =>
        \A j \in 1..Len(result.edges) :
            /\ result.edges[j].id = EdgeName(j)
            /\ result.edges[j].source = NoteName(j)
            /\ result.edges[j].target = NoteName(j + 1)

\* C10: a text that is empty or has no speaker line raises nothing in either
\* parser: the graph has no notes and no edges, no column at all for
\* parse_transcript_to_notes and the four preset columns for the daily parser
ReadLines == SplitOn(Strip(content), NL)
NoSpeakerLine ==
    IF fn = "daily"
    THEN file_exists /\ \A k \in 1..Len(ReadLines) :
                            ~NameLineMatch(Lower(RStrip(ReadLines[k])))
    ELSE \A k \in 1..Len(ReadLines) : ~SpeakerMatch(Strip(ReadLines[k]))
EmptyPresets ==
    << [id |-> ColumnPrefix \o <<"1">>, title |-> MichaelBarbaro, notes |-> <<>>],
       [id |-> ColumnPrefix \o <<"2">>, title |-> StephenMacedo, notes |-> <<>>],
       [id |-> ColumnPrefix \o <<"3">>, title |-> FrancesLee, notes |-> <<>>],
       [id |-> ColumnPrefix \o <<"4">>, title |-> <<>>, notes |-> <<>>] >>
C10_NoSpeakerNoError ==
    NoSpeakerLine =>
        /\ pc # "raised" /\ raised = "none"
        /\ pc = "done" =>
               result = [columns |-> IF fn = "daily" THEN EmptyPresets ELSE <<>>,
                         edges |-> <<>>]
C10_Witness ==
    /\ NoSpeakerLine /\ DailyDone /\ Strip(content) # <<>>

\* what a returned graph may hold of the call's own input: a column title is
\* the normalized form of one of its lines (daily) or a piece of its text
\* (notes), and each line of a note's content is a piece of one of its lines
OwnTitle(title) ==
    IF fn = "daily"
    THEN \E k \in 1..Len(InputLines) : Normalized(Lower(InputLines[k])) = title
    ELSE Contains(content, title)
OwnContent(text) ==
    \A m \in 1..Len(SplitOn(text, NL)) :
        \E k \in 1..Len(InputLines) : Contains(InputLines[k], Strip(SplitOn(text, NL)[m]))

\* C11: calls do not interfere. Whatever another call did before or does
\* meanwhile, the graph a call returns numbers its notes from note-1 with no
\* gap, has the call's own initial columns (the four empty presets for the
\* daily parser, none for parse_transcript_to_notes) followed by columns
\* column-5.. resp. column-1.. that each hold a note, and every column title and
\* note content in it comes from the call's own input
C11_NoInterference ==
    pc = "done" =>
        LET cols == result.columns
            first == IF fn = "daily" THEN 5 ELSE 1
        IN /\ fn = "daily" => Len(cols) >= 4 /\ SubSeq(cols, 1, 4) = EmptyPresets
           /\ GraphNoteIds(result) = {NoteName(j) : j \in 1..NoteCount(cols)}
           /\ \A c \in 1..Len(cols) : cols[c].id = ColumnPrefix \o Digits(c)
           /\ \A c \in first..Len(cols) :
                  /\ cols[c].notes # <<>>
                  /\ OwnTitle(cols[c].title)
           /\ \A n \in GraphNotes(result) : OwnContent(n.content)
\* a call returns a graph with a note while the other call, begun before the
\* return, is in the middle of its text and has emitted a note of its own
C11_Witness ==
    /\ pc = "done" /\ NoteCount(result.columns) > 0
    /\ other # <<>> /\ other.pc = "scan" /\ other.idx > 1
    /\ (other.notes # <<>> \/ \E c \in 1..Len(other.columns) : other.columns[c].notes # <<>>)

\* C12: when the transcript file is missing, the daily parser raises its
\* not-found error before any of its locals holds a column or a note and returns
\* no graph; the endpoint then answers with an error status, never with 200, and
\* writes neither the parsed-directory file nor the public-directory file
C12_MissingFile ==
    (fn = "daily" /\ ~file_exists) =>
        /\ pc \in {"call", "raised", "responded"}
        /\ pc # "call" => raised = "FileNotFoundError"
        /\ result = <<>> /\ columns = <<>> /\ notes = <<>>
        /\ parsed_file = <<>> /\ public_file = <<>>
        /\ response = IF pc = "responded" THEN 500 ELSE 0
C12_Witness ==
    /\ fn = "daily" /\ ~file_exists
    /\ pc = "responded" /\ response = 500

\* the text of the lines at the given places of conversation_lines + [''],
\* as a flush joins them
TextAt(places) == Strip(Join([k \in 1..Len(places) |-> RStrip(LoopLines[places[k]])], <<NL>>))

\* two notes in a row under one speaker line: two notes, not one, in the same
\* column, the second made of the lines after a blank line that follows the
\* lines of the first
SplitByBlank ==
    \A j \in 1..(Len(notes) - 1) :
        note_at[j + 1].speaker = note_at[j].speaker =>
            LET last == note_at[j].lines[Len(note_at[j].lines)]
                next == note_at[j + 1].lines[1]
            IN /\ notes[j + 1].id # notes[j].id
               /\ notes[j + 1].columnId = notes[j].columnId
               /\ ColumnOf(result, notes[j + 1].id) = ColumnOf(result, notes[j].id)
               /\ last < next
               /\ \E b \in (last + 1)..(next - 1) : RStrip(LoopLines[b]) = <<>>
               /\ notes[j].content = TextAt(note_at[j].lines)
               /\ notes[j + 1].content = TextAt(note_at[j + 1].lines)

\* C13: a blank line empties the paragraph in progress and leaves
\* current_speaker as it was; in the returned graph the content lines that
\* follow a blank line with no speaker line in between are a note of their own,
\* in the same column as the note before it of that speaker
C13_BlankKeepsSpeaker ==
    [][/\ (pc = "scan" /\ fn = "daily" /\ CurrentLine = <<>>) =>
              /\ current_speaker' = current_speaker
              /\ current_paragraph' = <<>>
       /\ (pc' = "done" /\ fn = "daily") => SplitByBlank']_vars
C13_Witness ==
    /\ DailyDone
    /\ \E j \in 1..(Len(notes) - 1) : note_at[j + 1].speaker = note_at[j].speaker

\* whether the line at a place of conversation_lines + [''] is a speaker line,
\* and the last speaker line before a place
LabelAt(k) == NameLineMatch(Lower(RStrip(LoopLines[k])))
Labels == {k \in 1..Len(LoopLines) : LabelAt(k)}
LabelBefore(labels, p) ==
    CHOOSE k \in labels : k < p /\ \A m \in labels : m < p => m <= k
TitleOfNote(g, noteId) == g.columns[ColumnOf(g, noteId)].title

\* C14: a speaker line flushes the paragraph in progress under the speaker
\* that was current before the line, and only then makes its own name current;
\* in the returned graph every note is made of lines with no speaker line among
\* or between them and sits in the column titled with the normalized form of
\* the last speaker line before its first line
C14_FlushBeforeTransition ==
    [][/\ (pc = "scan" /\ fn = "daily" /\ LabelAt(idx)) =>
              /\ current_speaker' = Lower(RStrip(LoopLines[idx]))
              /\ current_paragraph' = <<>>
              /\ Len(notes') > Len(notes) =>
                     /\ Len(notes') = Len(notes) + 1
                     /\ notes'[Len(notes')].content = Strip(Join(current_paragraph, <<NL>>))
                     /\ \E c \in 1..Len(columns') :
                            /\ columns'[c].id = notes'[Len(notes')].columnId
                            /\ columns'[c].title = Normalized(current_speaker)
       /\ (pc' = "done" /\ fn = "daily") =>
              LET labels == Labels
              IN \A j \in 1..Len(notes') :
                     LET at == note_at'[j].lines
                         label == LabelBefore(labels, at[1])
                     IN /\ notes'[j].content = TextAt(at)
                        /\ \E k \in labels : k < at[1]
                        /\ \A k \in labels : k < at[1] \/ k > at[Len(at)]
                        /\ TitleOfNote(result', notes'[j].id)
                               = Normalized(Lower(RStrip(LoopLines[label])))]_vars
\* a note whose paragraph is ended by the speaker line of someone else
C14_Witness ==
    /\ DailyDone
    /\ \E j \in 1..Len(notes) :
           LET end == note_at[j].lines[Len(note_at[j].lines)] + 1
           IN /\ LabelAt(end)
              /\ Normalized(Lower(RStrip(LoopLines[end]))) # TitleOfNote(result, notes[j].id)

\* the content lines the segmenter is to keep, in reading order: the lines
\* from place k on that are not blank, not a speaker line and not an excluded
\* line, read while a speaker with a title that is not excluded is current
RECURSIVE KeptFrom(_, _)
KeptFrom(k, speaker) ==
    IF k > Len(LoopLines) THEN <<>>
    ELSE LET line == RStrip(LoopLines[k])
         IN IF NameLineMatch(Lower(line)) THEN KeptFrom(k + 1, Lower(line))
            ELSE IF /\ line # <<>> /\ ~ExcludedLine(line)
                    /\ speaker # <<>> /\ Normalized(speaker) \notin excluded_columns
                 THEN <<line>> \o KeptFrom(k + 1, speaker)
                 ELSE KeptFrom(k + 1, speaker)

\* the lines of the contents of the notes, in the order of the notes
RECURSIVE NoteLinesOf(_)
NoteLinesOf(ns) ==
    IF ns = <<>> THEN <<>> ELSE SplitOn(ns[1].content, NL) \o NoteLinesOf(Tail(ns))

\* C15: no paragraph text is lost or duplicated. current_paragraph is empty
\* after every speaker line and every blank line and when the line loop ends
\* (the final flush); the lines of the contents of the returned notes, taken
\* in note order, are exactly the content lines read under a speaker that is
\* not excluded, each once and in reading order, those of a trailing
\* paragraph included
C15_NoTextLostOrDuplicated ==
    [][/\ (pc = "scan" /\ fn = "daily" /\ (LabelAt(idx) \/ CurrentLine = <<>>)) =>
              current_paragraph' = <<>>
       /\ (pc = "scan" /\ pc' = "edges" /\ fn = "daily") => current_paragraph' = <<>>
       /\ (pc' = "done" /\ fn = "daily") =>
              /\ NoteLinesOf(notes') = KeptFrom(1, <<>>)
              /\ GraphNotes(result') = {notes'[j] : j \in 1..Len(notes')}
              /\ NoteCount(result'.columns) = Len(notes')]_vars
\* a graph whose last note is a trailing paragraph, ended by the end of the
\* text alone, after an earlier note
C15_Witness ==
    /\ DailyDone /\ Len(notes) >= 2
    /\ note_at[Len(notes)].lines[Len(note_at[Len(notes)].lines)] = Len(conversation_lines)

\* the place in lines of the first line the segmenter takes for a speaker
\* line, 0 when there is none
FirstLabel ==
    IF \E k \in 1..Len(lines) : NameLineMatch(Lower(RStrip(lines[k])))
    THEN CHOOSE k \in 1..Len(lines) :
             /\ NameLineMatch(Lower(RStrip(lines[k])))
             /\ \A m \in 1..(k - 1) : ~NameLineMatch(Lower(RStrip(lines[m])))
    ELSE 0

\* C16: no line before the first speaker line is in a note's content, and
\* the segmenter is given every line from the first speaker line on: when the
\* text has a speaker line, conversation_lines is the text from that line to
\* its end and the loop has gone through all of it
C16_FromFirstLabel ==
    (DailyDone /\ FirstLabel > 0) =>
        LET skipped == Len(lines) - Len(conversation_lines)
        IN /\ \A j \in 1..Len(notes) :
                  \A m \in 1..Len(note_at[j].lines) :
                      skipped + note_at[j].lines[m] > FirstLabel
           /\ conversation_lines = SubSeq(lines, FirstLabel, Len(lines))
           /\ idx = Len(conversation_lines) + 2

\* the lines of a note's content
ContentLines(note) == {SplitOn(note.content, NL)[k] : k \in 1..Len(SplitOn(note.content, NL))}

\* the words of a line are all made of letters
RECURSIVE AllLetters(_)
AllLetters(ws) ==
    \/ ws = <<>>
    \/ /\ \A k \in 1..Len(ws[1]) : IsLower(ws[1][k]) \/ IsUpper(ws[1][k])
       /\ AllLetters(Tail(ws))
AlphaTokens(line) == Words(line) # <<>> /\ AllLetters(Words(line))
TwoTokens(line) ==
    /\ Len(Words(line)) = 2 /\ AllLetters(Words(line))
    /\ RStrip(line) = Strip(line)

\* C17, as the claim has it: the segmenter takes every line of one or more
\* alphabetic words for a speaker line, and makes it the current speaker
C17_AnyTokensLabel ==
    [][(pc = "scan" /\ fn = "daily" /\ AlphaTokens(LoopLines[idx])) =>
           current_speaker' = Lower(Strip(LoopLines[idx]))]_vars

\* C17, as the code has it: the segmenter takes a line for a speaker line
\* exactly when the line without its trailing whitespace is two alphabetic
\* words with whitespace between them and none before them; any other line
\* leaves current_speaker as it is and, when it is not blank nor excluded and a
\* speaker is current, goes into the paragraph in progress
C17_TwoTokensLabel ==
    [][(pc = "scan" /\ fn = "daily") =>
           IF TwoTokens(LoopLines[idx])
           THEN /\ current_speaker' = Lower(RStrip(LoopLines[idx]))
                /\ current_paragraph' = <<>>
           ELSE /\ current_speaker' = current_speaker
                /\ (/\ RStrip(LoopLines[idx]) # <<>>
                    /\ current_speaker # <<>>
                    /\ ~ExcludedLine(RStrip(LoopLines[idx]))) =>
                       current_paragraph' = Append(current_paragraph, RStrip(LoopLines[idx]))]_vars
\* a graph with a one-word line, a three-word line and a two-word line that
\* begins with a space in the contents of its notes
C17_Witness ==
    /\ DailyDone
    /\ \E j \in 1..Len(notes) : LineHi \in ContentLines(notes[j])
    /\ \E j \in 1..Len(notes) : LineABC \in ContentLines(notes[j])
    /\ \E j \in 1..Len(notes) : LineSpaceAlBo \in ContentLines(notes[j])

\* a line that is left out of the paragraphs, as the claim spells it out
LeftOut(line) ==
    \/ line # <<>> /\ line[1] \in {"[", "("}
    \/ /\ Len(line) >= Len(ArchivedRecording)
       /\ \A k \in 1..Len(ArchivedRecording) : line[k] = ArchivedRecording[k]

\* C18: a line that is neither blank nor a speaker line is appended to
\* current_paragraph if and only if a speaker is current and the line does not
\* begin with '[', '(' or 'archived recording'; in either case it leaves
\* current_speaker, the notes and the columns as they are, and a line that is
\* left out leaves current_paragraph as it is, so that in the returned graph
\* the content lines on both sides of it are in one note
C18_ContentLineFrame ==
    [][/\ (/\ pc = "scan" /\ fn = "daily"
           /\ Strip(LoopLines[idx]) # <<>> /\ ~TwoTokens(LoopLines[idx])) =>
              LET line == RStrip(LoopLines[idx])
              IN /\ current_speaker' = current_speaker
                 /\ notes' = notes /\ columns' = columns
                 /\ current_paragraph' =
                        IF current_speaker # <<>> /\ ~LeftOut(line)
                        THEN Append(current_paragraph, line)
                        ELSE current_paragraph
       /\ (pc' = "done" /\ fn = "daily") =>
              \A j \in 1..Len(notes') :
                  LET at == note_at'[j].lines
                  IN /\ notes'[j].content = TextAt(at)
                     /\ \A k \in at[1]..at[Len(at)] :
                            IF LeftOut(RStrip(LoopLines[k]))
                            THEN \A m \in 1..Len(at) : at[m] # k
                            ELSE \E m \in 1..Len(at) : at[m] = k]_vars
\* a note made of the lines before and after a line that is left out
C18_Witness ==
    /\ DailyDone
    /\ \E j \in 1..Len(notes) :
           \E m \in 1..(Len(note_at[j].lines) - 1) :
               note_at[j].lines[m + 1] > note_at[j].lines[m] + 1

\* the place in notes of the first note of the column at place p, 0 for a
\* column without notes
FirstNoteOf(p) ==
    IF columns[p].notes = <<>> THEN 0
    ELSE CHOOSE j \in 1..Len(notes) : notes[j].id = columns[p].notes[1].id

\* C19: from the moment the daily parser has its columns, and in the graph
\* it returns, the column at place p has the id column-p, so that ids are
\* unique; places 1..4 hold the four presets, ids and titles as at the start;
\* the columns after them come in the order in which their speakers' first
\* notes were emitted; and the number in one column id is less than the number
\* in another exactly when the first column stands before the second
C19_ColumnPositions ==
    (fn = "daily" /\ pc \in {"scan", "edges", "done"}) =>
        /\ Len(columns) >= 4
        /\ \A p \in 1..4 : /\ columns[p].id = EmptyPresets[p].id
                            /\ columns[p].title = EmptyPresets[p].title
        /\ \A p \in 1..Len(columns) : columns[p].id = ColumnPrefix \o Digits(p)
        /\ \A p, q \in 1..Len(columns) :
               /\ columns[p].id = columns[q].id => p = q
               /\ (ParseInt(RemoveAll(columns[p].id, ColumnPrefix))
                      < ParseInt(RemoveAll(columns[q].id, ColumnPrefix))) <=> p < q
               /\ (4 < p /\ p < q) => (0 < FirstNoteOf(p) /\ FirstNoteOf(p) < FirstNoteOf(q))
        /\ pc = "done" => result.columns = columns
\* a graph with two columns after the presets, each with a note
C19_Witness ==
    /\ DailyDone /\ Len(result.columns) >= 6
    /\ result.columns[5].notes # <<>> /\ result.columns[6].notes # <<>>

\* the number in a note id
NoteNumber(noteId) == ParseInt(RemoveAll(noteId, NotePrefix))

\* C20: in the daily parser and in the graph it returns, every emitted note
\* names by its columnId one column that exists, is in the notes list of that
\* column, once, and in the notes list of no other column; the columns hold
\* emitted notes only, each column in increasing order of note id; and the
\* source and the target of every edge are ids of emitted notes
C20_NotesInTheirColumns ==
    (fn = "daily" /\ pc \in {"scan", "edges", "done"}) =>
        /\ \A j \in 1..Len(notes) :
               /\ \E p \in 1..Len(columns) : columns[p].id = notes[j].columnId
               /\ \A p \in 1..Len(columns) :
                      Cardinality({n \in 1..Len(columns[p].notes) :
                                      columns[p].notes[n] = notes[j]})
                          = IF columns[p].id = notes[j].columnId THEN 1 ELSE 0
        /\ \A p \in 1..Len(columns) :
               /\ \A n \in 1..Len(columns[p].notes) :
                      \E j \in 1..Len(notes) : notes[j] = columns[p].notes[n]
               /\ \A n \in 1..(Len(columns[p].notes) - 1) :
                      NoteNumber(columns[p].notes[n].id) < NoteNumber(columns[p].notes[n + 1].id)
        /\ \A e \in 1..Len(edges) :
               /\ \E j \in 1..Len(notes) : notes[j].id = edges[e].source
               /\ \E j \in 1..Len(notes) : notes[j].id = edges[e].target
        /\ pc = "done" => result = [columns |-> columns, edges |-> edges]
\* a graph with an edge between the notes of two columns
C20_Witness ==
    /\ DailyDone /\ result.edges # <<>>
    /\ \E p, q \in 1..Len(result.columns) :
           /\ p # q
           /\ Len(result.columns[p].notes) >= 1
           /\ Len(result.columns[q].notes) >= 1

====
